---- MODULE Spec2Model ----
(***************************************************************************)
(* A model of the circuit breaker of package circuit_breaker               *)
(* (circuit_breaker.go, the version with IgnoreError and onFailed) and of  *)
(* the partitioned registry (partitioned.go).                              *)
(*                                                                         *)
(* Heap objects are modelled as entries of sequences: breakers holds the   *)
(* CircuitBreakerImpl objects, closedObjs the *stateClosed objects.  A     *)
(* goroutine started by a "go" statement is a pending timer: a half-open   *)
(* timer in hoTimers, a decay timer counted in decays.  time.Sleep is      *)
(* abstracted: a timer may fire at any moment after it was armed.          *)
(* Each caller is a goroutine running InvokeFunc; one action is one shared *)
(* memory access of the code (a read of c.state, an atomic add, a write    *)
(* under stateMutationMutex), together with the local steps around it.     *)
(* A read of c.state yields a value some write has stored: the value       *)
(* before or the value after a concurrent mutateState.                     *)
(***************************************************************************)
EXTENDS Integers, Sequences, FiniteSets, TLC

VARIABLES
  breakers,    \* heap of CircuitBreakerImpl: [threshold, state]
  closedObjs,  \* heap of stateClosed: [failureCount, threshold]
  decays,      \* decays[i]: decay goroutines sleeping on closedObjs[i]
  hoTimers,    \* half-open goroutines: [b, epoch, phase]
  opens,       \* opens[b]: number of Open() calls made on breaker b
  registry,    \* PartitionedCircuitBreakerImpl: [threshold, sMap]; sMap[k] = 0: no entry
  calls,       \* calls[c]: the InvokeFunc activation of caller c
  last,        \* the activation that returned most recently
  started,     \* number of InvokeFunc calls begun
  quiet,       \* no timer has fired and no f has returned nil or an IgnoreError
  ignoredOnly, \* every f that has returned, returned an IgnoreError
  overlap      \* some InvokeFunc began while another one was running

vars == <<breakers, closedObjs, decays, hoTimers, opens, registry, calls, last,
          started, quiet, ignoredOnly, overlap>>

----------------------------------------------------------------------------
(* Bounds of the model *)

NumCallers == 2
MaxCalls == 4
MaxKeyedCalls == 3
MaxThreshold == 2
NumKeys == 2

Callers == 1..NumCallers
Thresholds == 1..MaxThreshold
\* the Key strings, and the fmt.Stringer values callers pass: one more than
\* there are strings, so that two of them have the same String()
Keys == 1..NumKeys
Stringers == 1..(NumKeys + 1)
String(st) == ((st - 1) % NumKeys) + 1
NoKey == 0

----------------------------------------------------------------------------
(* Values *)

\* what a guarded function returns: nil, an ordinary error, an *IgnoreError
Errs == {"nil", "fail", "ignore"}

\* the two state singletons and a reference to a stateClosed object
open == [tag |-> "open", ref |-> 0]
halfOpen == [tag |-> "halfOpen", ref |-> 0]
closedRef(i) == [tag |-> "closed", ref |-> i]

\* a new stateClosed object
closed(threshold) == [failureCount |-> 0, threshold |-> threshold]

\* isIgnoreError with a type assertion that never matches (fault injected to
\* validate C9)
isIgnoreErrorNever(err) == FALSE

isIgnoreError(err) == err = "ignore"

\* uint64 cells are held in their two's complement reading: 2^64-1 is -1.
\* atomic.AddUint64(&x, 1) and atomic.AddUint64(&x, ^uint64(0))
AddUint64(x, delta) == x + delta
AllOnes == -1
\* a >= b on uint64
UintGe(a, b) == IF (a < 0) = (b < 0) THEN a >= b ELSE a < 0

\* IsThresholdExceeded with > for >= (fault injected to validate C3)
IsThresholdExceededStrict(s) ==
  /\ closedObjs[s].failureCount # closedObjs[s].threshold
  /\ UintGe(closedObjs[s].failureCount, closedObjs[s].threshold)

FailureCount(s) == closedObjs[s].failureCount

\* IsThresholdExceeded comparing with threshold + 1 (fault injected to
\* validate C29)
IsThresholdExceededLate(s) ==
  UintGe(closedObjs[s].failureCount, closedObjs[s].threshold + 1)

IsThresholdExceeded(s) == UintGe(FailureCount(s), closedObjs[s].threshold)

\* IsOpen with the wrong singleton compared (fault injected to validate C1)
IsOpenComparesHalfOpen(b) == breakers[b].state = halfOpen

IsOpen(b) == breakers[b].state = open
isHalfOpen(b) == breakers[b].state = halfOpen
IsClosed(b) == breakers[b].state.tag = "closed"

\* the failure counter the breaker's View shows (0 when not closed)
CurrentCount(b) ==
  IF IsClosed(b) THEN FailureCount(breakers[b].state.ref) ELSE 0

\* NewKey that does not use String() (fault injected to validate C5)
NewKeyConstant(st) == 1

\* NewKey(st) == Key(st.String())
NewKey(st) == String(st)

\* the CircuitBreakerImpl NewCircuitBreaker returns; its state is a new
\* stateClosed object, which the caller appends to closedObjs.  forKey is
\* history: the String() of the key argument the object was built for
\* (NoKey: built outside a registry); passed and hperiod are history too: how
\* many Open() calls had been made when the breaker last left Open, and how
\* many times the breaker has become HalfOpen.
NewCircuitBreaker(threshold, key) ==
  [threshold |-> threshold, state |-> closedRef(Len(closedObjs) + 1), forKey |-> key,
   passed |-> 0, hperiod |-> 0]

\* NewPartitionedCircuitBreaker: an empty sync.Map and the shared threshold
NewPartitionedCircuitBreaker(threshold) ==
  [threshold |-> threshold, sMap |-> [k \in Keys |-> 0]]

\* The activation record of InvokeFunc.  pc, brk, key, err, s are the code's
\* position and locals.  The rest is history kept for the properties: no is
\* the ordinal of the call, str the String() of the key argument, saw the
\* state IsOpen() read, per the HalfOpen period it was read in (0: the state
\* was not HalfOpen), fcalls the number of times f was called, result the
\* value returned.
idleCall ==
  [pc |-> "idle", brk |-> 0, key |-> NoKey, err |-> "none", s |-> 0,
   result |-> "none", fcalls |-> 0, saw |-> "none", per |-> 0, no |-> 0,
   str |-> NoKey]

Running(c) == calls[c].pc # "idle"

----------------------------------------------------------------------------
(* Initial state: one breaker built by NewCircuitBreaker(threshold, ..) *)

Init ==
  \E t \in Thresholds :
    /\ closedObjs = <<closed(t)>>
    /\ breakers = <<[threshold |-> t, state |-> closedRef(1), forKey |-> NoKey,
                     passed |-> 0, hperiod |-> 0]>>
    /\ decays = <<0>>
    /\ hoTimers = {}
    /\ opens = <<0>>
    /\ registry = NewPartitionedCircuitBreaker(t)
    /\ calls = [c \in Callers |-> idleCall]
    /\ last = idleCall
    /\ started = 0
    /\ quiet = TRUE
    /\ ignoredOnly = TRUE
    /\ overlap = FALSE

----------------------------------------------------------------------------
(* Building blocks of the actions *)

\* mutateState: c.state = state under stateMutationMutex
mutateState(b, st) ==
  breakers' = [breakers EXCEPT
                 ![b].state = st,
                 ![b].passed = IF breakers[b].state = open /\ st # open
                                 THEN opens[b] ELSE @,
                 ![b].hperiod = IF breakers[b].state # halfOpen /\ st = halfOpen
                                  THEN @ + 1 ELSE @]

\* Open() writing the halfOpen singleton (fault injected to validate C2)
OpenWritesHalfOpen(b) ==
  /\ mutateState(b, halfOpen)
  /\ opens' = [opens EXCEPT ![b] = @ + 1]
  /\ hoTimers' = hoTimers \cup {[b |-> b, epoch |-> opens[b] + 1, phase |-> "sleep"]}

\* Open() without its goroutine (fault injected to validate C6)
OpenWithoutTimer(b) ==
  /\ mutateState(b, open)
  /\ opens' = [opens EXCEPT ![b] = @ + 1]
  /\ hoTimers' = hoTimers

\* Open(): the state write and the "go" of the half-open timer
Open(b) ==
  /\ mutateState(b, open)
  /\ opens' = [opens EXCEPT ![b] = @ + 1]
  /\ hoTimers' = hoTimers \cup {[b |-> b, epoch |-> opens[b] + 1, phase |-> "sleep"]}

\* onFailed starting two decay goroutines (fault injected to validate C24)
ArmDecayTwice(s) == decays' = [decays EXCEPT ![s] = @ + 2]

\* the "go func" at the end of stateClosed.onFailed
ArmDecay(s) == decays' = [decays EXCEPT ![s] = @ + 1]

\* a step inside InvokeFunc: the activation becomes rec
Goto(c, rec) ==
  /\ calls' = [calls EXCEPT ![c] = rec]
  /\ last' = last

\* InvokeFunc returning nil whatever it was to return (fault injected to
\* validate C15)
ReturnNil(c, r) ==
  IF calls[c].key = NoKey
    THEN /\ calls' = [calls EXCEPT ![c] = idleCall]
         /\ last' = [calls[c] EXCEPT !.pc = "idle", !.result = "nil", !.s = 0]
    ELSE /\ calls' = [calls EXCEPT ![c].pc = "store", ![c].result = "nil", ![c].s = 0]
         /\ last' = last

\* CircuitBreakerImpl.InvokeFunc returns r; when it was called by the
\* registry's InvokeFunc, that one still has its Store to do
Return(c, r) ==
  IF calls[c].key = NoKey
    THEN /\ calls' = [calls EXCEPT ![c] = idleCall]
         /\ last' = [calls[c] EXCEPT !.pc = "idle", !.result = r, !.s = 0]
    ELSE /\ calls' = [calls EXCEPT ![c].pc = "store", ![c].result = r, ![c].s = 0]
         /\ last' = last

----------------------------------------------------------------------------
(* CircuitBreakerImpl.InvokeFunc, one caller *)

\* a caller calls InvokeFunc on the breaker
Begin(c) ==
  /\ calls[c].pc = "idle"
  /\ started < MaxCalls
  /\ Goto(c, [idleCall EXCEPT !.pc = "check", !.brk = 1, !.no = started + 1])
  /\ started' = started + 1
  /\ overlap' = (overlap \/ \E d \in Callers \ {c} : Running(d))
  /\ UNCHANGED <<breakers, closedObjs, decays, hoTimers, opens, registry, quiet,
                 ignoredOnly>>

\* if c.IsOpen() { return ErrCircuitBreakerOpen }
CheckOpen(c) ==
  /\ calls[c].pc = "check"
  /\ IF IsOpen(calls[c].brk)
       THEN Return(c, "ErrCircuitBreakerOpen")
       ELSE Goto(c, [calls[c] EXCEPT
                       !.pc = "callf",
                       !.saw = breakers[calls[c].brk].state.tag,
                       !.per = IF isHalfOpen(calls[c].brk)
                                 THEN breakers[calls[c].brk].hperiod ELSE 0])
  /\ UNCHANGED <<breakers, closedObjs, decays, hoTimers, opens, registry, started,
                 quiet, ignoredOnly, overlap>>

\* InvokeFunc that calls f a second time when it failed (fault injected to
\* validate C20)
CallFRetries(c) ==
  /\ calls[c].pc = "callf"
  /\ \E e \in Errs :
       /\ Goto(c, [calls[c] EXCEPT
                     !.err = e,
                     !.fcalls = @ + 1,
                     !.pc = IF e # "nil" /\ ~isIgnoreError(e)
                              THEN (IF calls[c].fcalls = 0 THEN "callf" ELSE "notifyFailure")
                              ELSE "notifySuccess"])
       /\ quiet' = (quiet /\ e = "fail")
       /\ ignoredOnly' = (ignoredOnly /\ e = "ignore")
  /\ UNCHANGED <<breakers, closedObjs, decays, hoTimers, opens, registry, started,
                 overlap>>

\* err := f(); if err != nil && !isIgnoreError(err) {NotifyFailure} else {NotifySuccess}
CallF(c) ==
  /\ calls[c].pc = "callf"
  /\ \E e \in Errs :
       /\ Goto(c, [calls[c] EXCEPT
                     !.err = e,
                     !.fcalls = @ + 1,
                     !.pc = IF e # "nil" /\ ~isIgnoreError(e)
                              THEN "notifyFailure" ELSE "notifySuccess"])
       /\ quiet' = (quiet /\ e = "fail")
       /\ ignoredOnly' = (ignoredOnly /\ e = "ignore")
  /\ UNCHANGED <<breakers, closedObjs, decays, hoTimers, opens, registry, started,
                 overlap>>

\* NotifyFailure where stateHalfOpen.onFailed does nothing (fault injected to
\* validate C8)
NotifyFailureHalfOpenNoop(c) ==
  /\ calls[c].pc = "notifyFailure"
  /\ LET st == breakers[calls[c].brk].state IN
       CASE st.tag = "closed" ->
              Goto(c, [calls[c] EXCEPT !.pc = "increment", !.s = st.ref])
         [] OTHER ->
              Return(c, calls[c].err)
  /\ UNCHANGED <<breakers, closedObjs, decays, hoTimers, opens, registry, started,
                 quiet, ignoredOnly, overlap>>

\* NotifyFailure where stateOpen.onFailed calls Open() again (fault injected
\* to validate C22)
NotifyFailureOpenReopens(c) ==
  /\ calls[c].pc = "notifyFailure"
  /\ LET st == breakers[calls[c].brk].state IN
       CASE st.tag = "closed" ->
              Goto(c, [calls[c] EXCEPT !.pc = "increment", !.s = st.ref])
         [] OTHER ->
              Goto(c, [calls[c] EXCEPT !.pc = "reopen"])
  /\ UNCHANGED <<breakers, closedObjs, decays, hoTimers, opens, registry, started,
                 quiet, ignoredOnly, overlap>>

\* NotifyFailure: c.state.onFailed(c), the read of c.state and the dispatch
NotifyFailure(c) ==
  /\ calls[c].pc = "notifyFailure"
  /\ LET st == breakers[calls[c].brk].state IN
       CASE st.tag = "closed" ->
              Goto(c, [calls[c] EXCEPT !.pc = "increment", !.s = st.ref])
         [] st.tag = "halfOpen" ->
              Goto(c, [calls[c] EXCEPT !.pc = "reopen"])
         [] st.tag = "open" ->
              Return(c, calls[c].err)
  /\ UNCHANGED <<breakers, closedObjs, decays, hoTimers, opens, registry, started,
                 quiet, ignoredOnly, overlap>>

\* IncrementFailureCount adding 2 (fault injected to validate C16)
IncrementFailureCountTwice(c) ==
  /\ calls[c].pc = "increment"
  /\ closedObjs' = [closedObjs EXCEPT
                      ![calls[c].s].failureCount = AddUint64(@, 2)]
  /\ Goto(c, [calls[c] EXCEPT !.pc = "threshold"])
  /\ UNCHANGED <<breakers, decays, hoTimers, opens, registry, started, quiet,
                 ignoredOnly, overlap>>

\* stateClosed.onFailed: s.IncrementFailureCount()
IncrementFailureCount(c) ==
  /\ calls[c].pc = "increment"
  /\ closedObjs' = [closedObjs EXCEPT
                      ![calls[c].s].failureCount = AddUint64(@, 1)]
  /\ Goto(c, [calls[c] EXCEPT !.pc = "threshold"])
  /\ UNCHANGED <<breakers, decays, hoTimers, opens, registry, started, quiet,
                 ignoredOnly, overlap>>

\* stateClosed.onFailed: if s.IsThresholdExceeded() {..}; below the threshold
\* the decay goroutine is started and InvokeFunc returns err
CheckThreshold(c) ==
  /\ calls[c].pc = "threshold"
  /\ IF IsThresholdExceeded(calls[c].s)
       THEN /\ Goto(c, [calls[c] EXCEPT !.pc = "trip"])
            /\ UNCHANGED decays
       ELSE /\ ArmDecay(calls[c].s)
            /\ Return(c, calls[c].err)
  /\ UNCHANGED <<breakers, closedObjs, hoTimers, opens, registry, started, quiet,
                 ignoredOnly, overlap>>

\* onFailed returning after Open() without the decay goroutine (fault
\* injected to validate C28)
TripWithoutDecay(c) ==
  /\ calls[c].pc = "trip"
  /\ Open(calls[c].brk)
  /\ Return(c, calls[c].err)
  /\ UNCHANGED <<closedObjs, decays, registry, started, quiet, ignoredOnly, overlap>>

\* stateClosed.onFailed: breaker.Open(), then the decay goroutine, then return
Trip(c) ==
  /\ calls[c].pc = "trip"
  /\ Open(calls[c].brk)
  /\ ArmDecay(calls[c].s)
  /\ Return(c, calls[c].err)
  /\ UNCHANGED <<closedObjs, registry, started, quiet, ignoredOnly, overlap>>

\* stateHalfOpen.onFailed: breaker.Open()
Reopen(c) ==
  /\ calls[c].pc = "reopen"
  /\ Open(calls[c].brk)
  /\ Return(c, calls[c].err)
  /\ UNCHANGED <<closedObjs, decays, registry, started, quiet, ignoredOnly, overlap>>

\* InvokeFunc that returns the *IgnoreError f returned (fault injected to
\* validate C19)
NotifySuccessSurfacesIgnored(c) ==
  /\ calls[c].pc = "notifySuccess"
  /\ IF isHalfOpen(calls[c].brk)
       THEN Goto(c, [calls[c] EXCEPT !.pc = "close"])
       ELSE Return(c, IF isIgnoreError(calls[c].err) THEN calls[c].err ELSE "nil")
  /\ UNCHANGED <<breakers, closedObjs, decays, hoTimers, opens, registry, started,
                 quiet, ignoredOnly, overlap>>

\* NotifySuccess that calls Close() in every state (fault injected to
\* validate C18)
NotifySuccessAlwaysCloses(c) ==
  /\ calls[c].pc = "notifySuccess"
  /\ Goto(c, [calls[c] EXCEPT !.pc = "close"])
  /\ UNCHANGED <<breakers, closedObjs, decays, hoTimers, opens, registry, started,
                 quiet, ignoredOnly, overlap>>

\* NotifySuccess that takes one failure off the counter of a Closed breaker
\* (fault injected to validate C17)
NotifySuccessLowers(c) ==
  /\ calls[c].pc = "notifySuccess"
  /\ IF isHalfOpen(calls[c].brk)
       THEN Goto(c, [calls[c] EXCEPT !.pc = "close"]) /\ UNCHANGED closedObjs
       ELSE /\ Return(c, "nil")
            /\ closedObjs' =
                 IF IsClosed(calls[c].brk) /\ CurrentCount(calls[c].brk) > 0
                   THEN [closedObjs EXCEPT
                           ![breakers[calls[c].brk].state.ref].failureCount =
                               AddUint64(@, AllOnes)]
                   ELSE closedObjs
  /\ UNCHANGED <<breakers, decays, hoTimers, opens, registry, started,
                 quiet, ignoredOnly, overlap>>

\* NotifySuccess: if c.isHalfOpen() {c.Close()}; otherwise return nil
NotifySuccess(c) ==
  /\ calls[c].pc = "notifySuccess"
  /\ IF isHalfOpen(calls[c].brk)
       THEN Goto(c, [calls[c] EXCEPT !.pc = "close"])
       ELSE Return(c, "nil")
  /\ UNCHANGED <<breakers, closedObjs, decays, hoTimers, opens, registry, started,
                 quiet, ignoredOnly, overlap>>

\* Close() that installs the latest stateClosed object again instead of a new
\* one (fault injected to validate C7)
CloseReusesClosed(c) ==
  /\ calls[c].pc = "close"
  /\ mutateState(calls[c].brk, closedRef(Len(closedObjs)))
  /\ Return(c, "nil")
  /\ UNCHANGED <<closedObjs, decays, hoTimers, opens, registry, started, quiet,
                 ignoredOnly, overlap>>

\* Close(): c.mutateState(closed(c.threshold)); return nil
Close(c) ==
  /\ calls[c].pc = "close"
  /\ closedObjs' = Append(closedObjs, closed(breakers[calls[c].brk].threshold))
  /\ decays' = Append(decays, 0)
  /\ mutateState(calls[c].brk, closedRef(Len(closedObjs) + 1))
  /\ Return(c, "nil")
  /\ UNCHANGED <<hoTimers, opens, registry, started, quiet, ignoredOnly, overlap>>

----------------------------------------------------------------------------
(* The goroutines started by Open() and by stateClosed.onFailed *)

\* after time.Sleep(c.halfOpenTimeout): if c.IsOpen() {..}
HalfOpenTimerCheck(t) ==
  /\ t.phase = "sleep"
  /\ hoTimers' = IF IsOpen(t.b)
                   THEN (hoTimers \ {t}) \cup {[t EXCEPT !.phase = "checked"]}
                   ELSE hoTimers \ {t}
  /\ quiet' = FALSE
  /\ UNCHANGED <<breakers, closedObjs, decays, opens, registry, calls, last, started,
                 ignoredOnly, overlap>>

\* c.HalfOpen()
HalfOpenTimerFire(t) ==
  /\ t.phase = "checked"
  /\ mutateState(t.b, halfOpen)
  /\ hoTimers' = hoTimers \ {t}
  /\ quiet' = FALSE
  /\ UNCHANGED <<closedObjs, decays, opens, registry, calls, last, started,
                 ignoredOnly, overlap>>

\* a decay goroutine that decrements the newest stateClosed object instead of
\* the one it captured (fault injected to validate C23)
DecrementLatest(s) ==
  /\ decays[s] > 0
  /\ closedObjs' = [closedObjs EXCEPT
                      ![Len(closedObjs)].failureCount = AddUint64(@, AllOnes)]
  /\ decays' = [decays EXCEPT ![s] = @ - 1]
  /\ quiet' = FALSE
  /\ UNCHANGED <<breakers, hoTimers, opens, registry, calls, last, started,
                 ignoredOnly, overlap>>

\* after time.Sleep(breaker.FailureCountResetTimeout()): s.DecrementFailureCount()
DecrementFailureCount(s) ==
  /\ decays[s] > 0
  /\ closedObjs' = [closedObjs EXCEPT ![s].failureCount = AddUint64(@, AllOnes)]
  /\ decays' = [decays EXCEPT ![s] = @ - 1]
  /\ quiet' = FALSE
  /\ UNCHANGED <<breakers, hoTimers, opens, registry, calls, last, started,
                 ignoredOnly, overlap>>

----------------------------------------------------------------------------
(* PartitionedCircuitBreakerImpl.InvokeFunc *)

\* the state after NewPartitionedCircuitBreaker(threshold, ..)
InitPartitioned ==
  \E t \in Thresholds :
    /\ closedObjs = <<>>
    /\ breakers = <<>>
    /\ decays = <<>>
    /\ hoTimers = {}
    /\ opens = <<>>
    /\ registry = NewPartitionedCircuitBreaker(t)
    /\ calls = [c \in Callers |-> idleCall]
    /\ last = idleCall
    /\ started = 0
    /\ quiet = TRUE
    /\ ignoredOnly = TRUE
    /\ overlap = FALSE

\* a caller calls InvokeFunc(k, f) on the registry: key := NewKey(k)
BeginKeyed(c) ==
  /\ calls[c].pc = "idle"
  /\ started < MaxKeyedCalls
  /\ \E st \in Stringers :
       Goto(c, [idleCall EXCEPT !.pc = "load", !.key = NewKey(st),
                                !.str = String(st), !.no = started + 1])
  /\ started' = started + 1
  /\ overlap' = (overlap \/ \E d \in Callers \ {c} : Running(d))
  /\ UNCHANGED <<breakers, closedObjs, decays, hoTimers, opens, registry, quiet,
                 ignoredOnly>>

\* breaker, ok := p.circuitBreakerMap.Load(key); if !ok {breaker = NewCircuitBreaker(..)}
Load(c) ==
  /\ calls[c].pc = "load"
  /\ LET b == registry.sMap[calls[c].key] IN
       IF b # 0
         THEN /\ Goto(c, [calls[c] EXCEPT !.pc = "check", !.brk = b])
              /\ UNCHANGED <<breakers, closedObjs, decays, opens>>
         ELSE /\ closedObjs' = Append(closedObjs, closed(registry.threshold))
              /\ decays' = Append(decays, 0)
              /\ breakers' = Append(breakers,
                                    NewCircuitBreaker(registry.threshold, calls[c].str))
              /\ opens' = Append(opens, 0)
              /\ Goto(c, [calls[c] EXCEPT !.pc = "check", !.brk = Len(breakers) + 1])
  /\ UNCHANGED <<hoTimers, registry, started, quiet, ignoredOnly, overlap>>

\* the registry's InvokeFunc returning without its Store (fault injected to
\* validate C25)
StoreDrops(c) ==
  /\ calls[c].pc = "store"
  /\ calls' = [calls EXCEPT ![c] = idleCall]
  /\ last' = [calls[c] EXCEPT !.pc = "idle"]
  /\ UNCHANGED <<breakers, closedObjs, decays, hoTimers, opens, registry, started,
                 quiet, ignoredOnly, overlap>>

\* p.circuitBreakerMap.Store(key, breaker); return result
Store(c) ==
  /\ calls[c].pc = "store"
  /\ registry' = [registry EXCEPT !.sMap[calls[c].key] = calls[c].brk]
  /\ calls' = [calls EXCEPT ![c] = idleCall]
  /\ last' = [calls[c] EXCEPT !.pc = "idle"]
  /\ UNCHANGED <<breakers, closedObjs, decays, hoTimers, opens, started, quiet,
                 ignoredOnly, overlap>>

----------------------------------------------------------------------------

CallerStep(c) ==
  \/ CheckOpen(c)
  \/ CallF(c)
  \/ NotifyFailure(c)
  \/ IncrementFailureCount(c)
  \/ CheckThreshold(c)
  \/ Trip(c)
  \/ Reopen(c)
  \/ NotifySuccess(c)
  \/ Close(c)

TimerStep ==
  \/ \E t \in hoTimers : HalfOpenTimerCheck(t)
  \/ \E t \in hoTimers : HalfOpenTimerFire(t)
  \/ \E s \in 1..Len(closedObjs) : DecrementFailureCount(s)

Next ==
  \/ \E c \in Callers : Begin(c)
  \/ \E c \in Callers : CallerStep(c)
  \/ TimerStep

Spec == Init /\ [][Next]_vars

NextPartitioned ==
  \/ \E c \in Callers : BeginKeyed(c)
  \/ \E c \in Callers : Load(c)
  \/ \E c \in Callers : CallerStep(c)
  \/ \E c \in Callers : Store(c)
  \/ TimerStep

SpecPartitioned == InitPartitioned /\ [][NextPartitioned]_vars

\* Each goroutine started by "go" runs once its Sleep is over.
TimerFairness ==
  /\ WF_vars(\E t \in hoTimers : HalfOpenTimerCheck(t))
  /\ WF_vars(\E t \in hoTimers : HalfOpenTimerFire(t))
  /\ WF_vars(\E s \in 1..Len(closedObjs) : DecrementFailureCount(s))

FairSpec == Spec /\ TimerFairness

----------------------------------------------------------------------------
(* Properties *)

AllIdle == \A c \in Callers : ~Running(c)
Stepped(c) == calls'[c] # calls[c]
Returned(c) == ~Running(c)' /\ last'.no = calls[c].no
Breakers == 1..Len(breakers)

\* C1: an InvokeFunc whose IsOpen() check reads Open returns
\* ErrCircuitBreakerOpen at that step and has not called f.
C1_OpenFailsFast ==
  [][\A c \in Callers :
       (calls[c].pc = "check" /\ Stepped(c) /\ breakers[calls[c].brk].state = open)
         => /\ Returned(c)
            /\ last'.result = "ErrCircuitBreakerOpen"
            /\ last'.fcalls = 0]_vars

C1_Witness ==
  /\ last.no > 0
  /\ last.result = "ErrCircuitBreakerOpen"
  /\ last.fcalls = 0
  /\ opens[1] = 1

\* C2: on a fresh breaker of threshold T, with calls made one after the other,
\* every f failing and no timer firing, the breaker is Open once T calls have
\* returned, and every later call returns ErrCircuitBreakerOpen without
\* calling f.
C2_TripsAfterThreshold ==
  (quiet /\ ~overlap) =>
    /\ (AllIdle /\ started >= breakers[1].threshold) => IsOpen(1)
    /\ last.no > breakers[1].threshold
         => (last.result = "ErrCircuitBreakerOpen" /\ last.fcalls = 0)

C2_Witness ==
  /\ quiet /\ ~overlap
  /\ breakers[1].threshold = MaxThreshold
  /\ IsOpen(1)
  /\ last.no = MaxThreshold + 1
  /\ last.result = "ErrCircuitBreakerOpen"
  /\ last.fcalls = 0

\* C3: when T InvokeFunc calls with a failing f have run on a fresh breaker
\* of threshold T, in any interleaving and with no timer firing, the breaker is
\* Open once all of them have returned.
C3_ConcurrentFailuresTrip ==
  (quiet /\ AllIdle /\ started = breakers[1].threshold) => IsOpen(1)

C3_Witness ==
  /\ quiet /\ overlap /\ AllIdle
  /\ breakers[1].threshold = NumCallers
  /\ started = NumCallers
  /\ last.result = "fail"
  /\ IsOpen(1)

\* C4: in the registry at most one breaker is ever constructed for a key, and
\* every call for the key runs on it.
C4_OneBreakerPerKey ==
  /\ \A a, b \in Breakers : breakers[a].forKey = breakers[b].forKey => a = b
  /\ \A c, d \in Callers :
       (calls[c].brk # 0 /\ calls[d].brk # 0 /\ calls[c].str = calls[d].str)
         => calls[c].brk = calls[d].brk

\* C5: a breaker is only ever used and stored under the key string it was built
\* for, and no step of an InvokeFunc for one key string changes the state, the
\* failure counter or the number of Open() calls of a breaker of another one;
\* a call that returns ErrCircuitBreakerOpen ran on a breaker of its own key
\* on which Open() was called.
C5_PartitionIsolation ==
  [][/\ \A k \in Keys :
          registry'.sMap[k] # 0 => breakers'[registry'.sMap[k]].forKey = k
     /\ \A c \in Callers :
          /\ calls'[c].brk # 0 => breakers'[calls'[c].brk].forKey = calls'[c].str
          /\ calls'[c].result = "ErrCircuitBreakerOpen" => opens'[calls'[c].brk] > 0
          /\ Stepped(c) =>
               \A b \in Breakers :
                 breakers[b].forKey # calls'[c].str
                   => /\ breakers'[b] = breakers[b]
                      /\ CurrentCount(b)' = CurrentCount(b)
                      /\ opens'[b] = opens[b]]_vars

C5_Witness ==
  \E a, b \in Breakers :
    /\ breakers[a].forKey # breakers[b].forKey
    /\ IsOpen(a)
    /\ IsClosed(b) /\ CurrentCount(b) = 0
    /\ ~overlap
    /\ AllIdle
    /\ last.brk = b
    /\ last.no = MaxKeyedCalls
    /\ last.result = "nil"

\* C6: with timers fair, a breaker that is Open while no call is running
\* becomes HalfOpen.
C6_OpenLeadsToHalfOpen == (IsOpen(1) /\ AllIdle) ~> isHalfOpen(1)

C6_Witness == isHalfOpen(1) /\ AllIdle /\ hoTimers = {}

\* C7: when NotifySuccess finds the breaker HalfOpen, the call goes on to
\* Close(), returns nil and leaves the breaker on a new Closed state whose
\* failure counter is zero.
C7_ProbeSuccessCloses ==
  [][\A c \in Callers :
       /\ (calls[c].pc = "notifySuccess" /\ Stepped(c) /\ isHalfOpen(calls[c].brk))
            => calls'[c].pc = "close"
       /\ (calls[c].pc = "close" /\ Stepped(c))
            => /\ Returned(c)
               /\ last'.result = "nil"
               /\ breakers'[calls[c].brk].state.tag = "closed"
               /\ closedObjs'[breakers'[calls[c].brk].state.ref].failureCount = 0
               /\ breakers'[calls[c].brk].state.ref > Len(closedObjs)]_vars

C7_Witness ==
  /\ last.saw = "halfOpen" /\ last.err = "nil" /\ last.result = "nil"
  /\ IsClosed(1) /\ CurrentCount(1) = 0
  /\ breakers[1].state.ref > 1
  /\ FailureCount(1) = MaxThreshold

\* C8: when NotifyFailure finds the breaker HalfOpen, the call goes on to
\* Open() without any threshold check, leaves the breaker Open and returns
\* f's error; f was called once.
C8_ProbeFailureReopens ==
  [][\A c \in Callers :
       /\ (calls[c].pc = "notifyFailure" /\ Stepped(c) /\ isHalfOpen(calls[c].brk))
            => calls'[c].pc = "reopen"
       /\ (calls[c].pc = "reopen" /\ Stepped(c))
            => /\ Returned(c)
               /\ breakers'[calls[c].brk].state = open
               /\ last'.result = "fail"
               /\ last'.fcalls = 1
               /\ closedObjs' = closedObjs]_vars

C8_Witness ==
  /\ ~overlap
  /\ breakers[1].threshold = MaxThreshold
  /\ last.saw = "halfOpen" /\ last.err = "fail" /\ last.result = "fail"
  /\ IsOpen(1)

\* C9: no step of an InvokeFunc whose f returned an IgnoreError raises a
\* failure counter or writes Open; while every f that has returned has
\* returned an IgnoreError, the breaker is Closed with counter zero.
C9_IgnoredErrorsDoNotCount ==
  [][/\ ignoredOnly' => (IsClosed(1)' /\ CurrentCount(1)' = 0)
     /\ \A c \in Callers :
          (Stepped(c) /\ (calls[c].err = "ignore" \/ calls'[c].err = "ignore"))
            => /\ \A i \in 1..Len(closedObjs) :
                    closedObjs'[i].failureCount = closedObjs[i].failureCount
               /\ opens' = opens
               /\ \A b \in Breakers : IsOpen(b)' => IsOpen(b)]_vars

C9_Witness ==
  /\ ignoredOnly /\ AllIdle
  /\ breakers[1].threshold < started
  /\ last.err = "ignore" /\ last.result = "nil"
  /\ IsClosed(1) /\ CurrentCount(1) = 0

\* C10: with timers fair, a Closed breaker whose failure counter is 1 while no
\* call is running stays Closed until a further failure is notified, and its
\* counter becomes 0 or a further failure is notified.
FurtherFailure == \E c \in Callers : calls[c].pc = "notifyFailure"
C10_DecayToZero ==
  /\ (IsClosed(1) /\ CurrentCount(1) = 1 /\ AllIdle)
       ~> ((IsClosed(1) /\ CurrentCount(1) = 0) \/ FurtherFailure)
  /\ [][(IsClosed(1) /\ CurrentCount(1) = 1 /\ AllIdle) => IsClosed(1)']_vars

\* a step of the half-open goroutine t: its IsOpen() check or its HalfOpen()
TimerRan(t) == t \in hoTimers /\ t \notin hoTimers'

\* C11: a step of a half-open timer taken while its breaker is not Open (the
\* check of a late timer, or the write of a timer that other callers and
\* timers have overtaken since its check) leaves the breaker's state and every
\* failure counter as they were.
C11_StaleTimerChangesNothing ==
  [][\A t \in hoTimers :
       (TimerRan(t) /\ ~IsOpen(t.b))
         => (breakers'[t.b] = breakers[t.b] /\ closedObjs' = closedObjs)]_vars

\* C12: a half-open timer moves the breaker from Open to HalfOpen only when the
\* breaker has not left Open since the Open() call that armed the timer; so
\* after a failed probe re-opened the breaker, no timer of an Open() call made
\* before the probe was admitted moves it to HalfOpen.
C12_OnlyCurrentTimerHalfOpens ==
  [][\A t \in hoTimers :
       (TimerRan(t) /\ IsOpen(t.b) /\ isHalfOpen(t.b)')
         => t.epoch > breakers[t.b].passed]_vars

\* C13: every step that takes a breaker out of Open takes it to HalfOpen, and
\* every step that makes a breaker that is not Closed Closed finds it HalfOpen
\* and is the Close() of a call whose f succeeded.
C13_OpenLeavesOnlyToHalfOpen ==
  [][\A b \in Breakers :
       /\ (IsOpen(b) /\ ~IsOpen(b)') => isHalfOpen(b)'
       /\ (~IsClosed(b) /\ IsClosed(b)')
            => /\ isHalfOpen(b)
               /\ \E c \in Callers :
                    /\ calls[c].pc = "close" /\ Stepped(c) /\ calls[c].brk = b
                    /\ ~(calls[c].err # "nil" /\ ~isIgnoreError(calls[c].err))]_vars

\* C14: no two InvokeFunc calls that both passed the IsOpen() check in the
\* same HalfOpen period of a breaker are running f at the same time.
C14_OneProbePerHalfOpen ==
  \A c, d \in Callers :
    ( /\ c # d
      /\ calls[c].pc = "callf" /\ calls[d].pc = "callf"
      /\ calls[c].brk = calls[d].brk
      /\ calls[c].saw = "halfOpen" /\ calls[d].saw = "halfOpen" )
    => calls[c].per # calls[d].per

\* C15: an InvokeFunc that has returned, returned nil, ErrCircuitBreakerOpen
\* or the value its f returned; when it called f and f returned an error that
\* is not an IgnoreError it returned that error, and when f returned nil it
\* returned nil.
C15_ReturnValues ==
  last.no > 0 =>
    /\ \/ last.result \in {"nil", "ErrCircuitBreakerOpen"}
       \/ (last.fcalls > 0 /\ last.result = last.err)
    /\ (last.fcalls > 0 /\ last.err = "fail") => last.result = "fail"
    /\ (last.fcalls > 0 /\ last.err = "nil") => last.result = "nil"

C15_Witness ==
  /\ last.saw = "closed" /\ last.fcalls = 1
  /\ last.err = "fail" /\ last.result = "fail"
  /\ breakers[1].threshold = MaxThreshold
  /\ IsClosed(1) /\ CurrentCount(1) = 1

\* C16: a failed InvokeFunc that found the breaker Closed raises the counter
\* of that Closed state by exactly one, from n to n + 1, and writes no state
\* while doing so; when it then reads n + 1 < threshold it returns without
\* writing the state or a counter, and when it reads n + 1 >= threshold it
\* goes on to Open() and the breaker is Open when it returns.
C16_FailureCountsOnce ==
  [][\A c \in Callers :
       /\ (calls[c].pc = "increment" /\ Stepped(c))
            => /\ closedObjs'[calls[c].s].failureCount
                    = closedObjs[calls[c].s].failureCount + 1
               /\ \A i \in 1..Len(closedObjs) :
                    i # calls[c].s => closedObjs'[i] = closedObjs[i]
               /\ breakers' = breakers
               /\ calls'[c].pc = "threshold"
       /\ (calls[c].pc = "threshold" /\ Stepped(c))
            => /\ breakers' = breakers /\ closedObjs' = closedObjs
               /\ IF closedObjs[calls[c].s].failureCount < closedObjs[calls[c].s].threshold
                    THEN Returned(c) /\ last'.result = calls[c].err
                    ELSE calls'[c].pc = "trip"
       /\ (calls[c].pc = "trip" /\ Stepped(c))
            => /\ Returned(c)
               /\ breakers'[calls[c].brk].state = open
               /\ closedObjs' = closedObjs]_vars

C16_Witness ==
  /\ ~overlap
  /\ breakers[1].threshold = MaxThreshold
  /\ last.saw = "closed" /\ last.err = "fail"
  /\ last.no = MaxThreshold + 1
  /\ IsOpen(1)
  /\ FailureCount(1) = MaxThreshold

\* C17: the NotifySuccess of a call that finds the breaker Closed returns nil
\* and changes neither the state nor any failure counter, and every step that
\* lowers the counter of a Closed state is the DecrementFailureCount of a
\* decay goroutine of that Closed state.
C17_SuccessKeepsCounter ==
  [][/\ \A c \in Callers :
          (calls[c].pc = "notifySuccess" /\ Stepped(c) /\ IsClosed(calls[c].brk))
            => /\ Returned(c) /\ last'.result = "nil"
               /\ breakers' = breakers
               /\ closedObjs' = closedObjs
     /\ \A i \in 1..Len(closedObjs) :
          closedObjs'[i].failureCount < closedObjs[i].failureCount
            => /\ decays'[i] = decays[i] - 1
               /\ closedObjs'[i].failureCount = closedObjs[i].failureCount - 1
               /\ calls' = calls /\ breakers' = breakers]_vars

C17_Witness ==
  /\ ~overlap /\ quiet = FALSE
  /\ breakers[1].threshold = MaxThreshold
  /\ last.saw = "closed" /\ last.err = "nil" /\ last.result = "nil"
  /\ last.no = MaxThreshold
  /\ IsClosed(1) /\ CurrentCount(1) = 1 /\ decays[1] = 1

\* the state discriminant and the failure counter of every breaker stay
SameView ==
  \A b \in Breakers :
    /\ breakers'[b].state.tag = breakers[b].state.tag
    /\ CurrentCount(b)' = CurrentCount(b)

\* C18 as stated: no step of an InvokeFunc whose f returned an IgnoreError
\* changes the state discriminant or the failure counter of the breaker,
\* whatever state the breaker is in.
C18_IgnoredLeavesState ==
  [][\A c \in Callers : (Stepped(c) /\ calls[c].err = "ignore") => SameView]_vars

\* C18 amended: an InvokeFunc whose f returned an IgnoreError goes on to
\* Close() exactly when its NotifySuccess finds the breaker HalfOpen; Close()
\* is its only step that changes the state discriminant or the failure
\* counter, and it leaves the breaker Closed with counter zero.
C18_IgnoredChangesOnlyHalfOpen ==
  [][\A c \in Callers :
       (Stepped(c) /\ calls[c].err = "ignore")
         => /\ calls[c].pc \in {"notifySuccess", "close"}
            /\ calls[c].pc = "notifySuccess"
                 => /\ SameView
                    /\ (calls'[c].pc = "close") = isHalfOpen(calls[c].brk)
                    /\ calls'[c].pc # "close" => (Returned(c) /\ last'.result = "nil")
            /\ calls[c].pc = "close"
                 => /\ breakers'[calls[c].brk].state.tag = "closed"
                    /\ closedObjs'[breakers'[calls[c].brk].state.ref].failureCount = 0
                    /\ \A b \in Breakers \ {calls[c].brk} :
                         breakers'[b] = breakers[b]]_vars

C18_Witness ==
  /\ ~overlap
  /\ last.saw = "halfOpen" /\ last.err = "ignore" /\ last.result = "nil"
  /\ IsClosed(1) /\ CurrentCount(1) = 0
  /\ breakers[1].state.ref = 2
  /\ breakers[1].hperiod = 1

\* C19: what an InvokeFunc does once f has returned is the same for an
\* IgnoreError as for nil, in every state of the breaker: it goes to
\* NotifySuccess without touching the breaker; NotifySuccess goes on to
\* Close() when it finds the breaker HalfOpen and otherwise returns nil
\* leaving state and counters alone; Close() installs a new Closed state with
\* counter zero and the call returns nil.
C19_IgnoredHandledAsNil ==
  [][\A c \in Callers : \A e \in {"nil", "ignore"} :
       /\ (calls[c].pc = "callf" /\ Stepped(c) /\ calls'[c].err = e)
            => (calls'[c].pc = "notifySuccess" /\ SameView)
       /\ (calls[c].pc = "notifySuccess" /\ Stepped(c) /\ calls[c].err = e)
            => /\ SameView
               /\ IF isHalfOpen(calls[c].brk)
                    THEN calls'[c].pc = "close"
                    ELSE Returned(c) /\ last'.result = "nil"
       /\ (calls[c].pc = "close" /\ Stepped(c) /\ calls[c].err = e)
            => /\ Returned(c) /\ last'.result = "nil"
               /\ breakers'[calls[c].brk].state = closedRef(Len(closedObjs) + 1)
               /\ closedObjs' = Append(closedObjs, closed(breakers[calls[c].brk].threshold))]_vars

C19_Witness ==
  /\ ~overlap
  /\ breakers[1].threshold = MaxThreshold
  /\ last.saw = "closed" /\ last.err = "ignore" /\ last.result = "nil"
  /\ last.fcalls = 1
  /\ IsClosed(1) /\ CurrentCount(1) = 1

\* C20: an InvokeFunc whose IsOpen() check read a state other than Open has
\* called f exactly once when it is past the call of f and when it has
\* returned; one whose check read Open has not called f; no InvokeFunc has
\* called f more than once.
C20_CallsFOnce ==
  /\ \A c \in Callers :
       /\ calls[c].fcalls <= 1
       /\ calls[c].pc \in {"idle", "check", "load", "callf"} => calls[c].fcalls = 0
       /\ (calls[c].saw # "none" /\ calls[c].pc # "callf") => calls[c].fcalls = 1
  /\ last.no > 0 => last.fcalls = (IF last.saw = "none" THEN 0 ELSE 1)

C20_Witness ==
  /\ AllIdle /\ started = MaxCalls
  /\ last.no = MaxCalls
  /\ last.saw = "closed" /\ last.err = "nil" /\ last.fcalls = 1
  /\ opens[1] = 1

\* C21: no NotifyFailure of an InvokeFunc reads the state Open, so
\* stateOpen.onFailed is never run.
C21_NoFailureWhileOpen ==
  [][\A c \in Callers :
       (calls[c].pc = "notifyFailure" /\ Stepped(c)) => ~IsOpen(calls[c].brk)]_vars

\* C22: a NotifyFailure that reads the state Open ends the call there with
\* f's error and changes nothing: the state stays Open, no counter changes,
\* and no half-open or decay goroutine is started.
C22_FailureWhileOpenIsNoop ==
  [][\A c \in Callers :
       (calls[c].pc = "notifyFailure" /\ Stepped(c) /\ IsOpen(calls[c].brk))
         => /\ Returned(c) /\ last'.result = calls[c].err
            /\ breakers' = breakers
            /\ closedObjs' = closedObjs
            /\ hoTimers' = hoTimers
            /\ decays' = decays
            /\ opens' = opens]_vars

C22_Witness ==
  /\ quiet /\ AllIdle
  /\ breakers[1].threshold = 1
  /\ started = 2
  /\ last.fcalls = 1 /\ last.result = "fail"
  /\ IsOpen(1) /\ FailureCount(1) = 1
  /\ opens[1] = 1 /\ decays[1] = 1

\* C23: the counter of a Closed instance is changed only by the increment of
\* a failure handler that read this instance and by the decay goroutines that
\* such handlers started on it; Close() installs an instance with counter 0.
\* So the counter of the instance installed by Close() stays 0 until a failure
\* is recorded on it, whatever decay goroutines of earlier instances fire.
C23_DecayBoundToInstance ==
  [][/\ \A i \in 1..Len(closedObjs) :
          /\ closedObjs'[i].failureCount # closedObjs[i].failureCount
               => \/ \E c \in Callers :
                       /\ calls[c].pc = "increment" /\ calls[c].s = i /\ Stepped(c)
                       /\ closedObjs'[i].failureCount = closedObjs[i].failureCount + 1
                  \/ /\ decays[i] > 0 /\ decays'[i] = decays[i] - 1
                     /\ closedObjs'[i].failureCount = closedObjs[i].failureCount - 1
                     /\ \A j \in 1..Len(closedObjs) :
                          j # i => closedObjs'[j] = closedObjs[j]
          /\ decays'[i] > decays[i]
               => \E c \in Callers :
                    /\ calls[c].pc \in {"threshold", "trip"} /\ calls[c].s = i
                    /\ Stepped(c)
                    /\ decays'[i] = decays[i] + 1
     /\ \A i \in (Len(closedObjs) + 1)..Len(closedObjs') :
          closedObjs'[i].failureCount = 0 /\ decays'[i] = 0
     /\ \A c \in Callers :
          (calls[c].pc = "close" /\ Stepped(c))
            => /\ breakers'[calls[c].brk].state = closedRef(Len(closedObjs) + 1)
               /\ Len(closedObjs') = Len(closedObjs) + 1]_vars

C23_Witness ==
  /\ breakers[1].threshold = MaxThreshold
  /\ breakers[1].state = closedRef(2)
  /\ FailureCount(1) = 0 /\ decays[1] = 0
  /\ FailureCount(2) = 1 /\ decays[2] = 1
  /\ opens[1] = 1
  /\ AllIdle

\* C24: no failure counter is ever below zero in its two's complement
\* reading, that is at 2^64-1 or another wrapped value, and every
\* DecrementFailureCount finds its counter above zero.
C24_NoUnderflow ==
  /\ \A i \in 1..Len(closedObjs) : FailureCount(i) >= 0
  /\ \A i \in 1..Len(closedObjs) : decays[i] > 0 => FailureCount(i) > 0

C24_Witness ==
  /\ AllIdle /\ started = 1
  /\ breakers[1].threshold = MaxThreshold
  /\ last.saw = "closed" /\ last.err = "fail"
  /\ IsClosed(1)
  /\ FailureCount(1) = 0 /\ decays[1] = 0

\* C25: while the registry's InvokeFunc calls do not overlap, there is one
\* breaker per key string, built as NewCircuitBreaker builds a standalone one
\* from the registry's threshold; every call for the key runs that breaker's
\* InvokeFunc and nothing else on it, returns what it returned and leaves it
\* in the map.  So with one key and every f failing the breaker is Open after
\* threshold calls and later calls return ErrCircuitBreakerOpen, as for the
\* standalone breaker.
C25_SequentialRegistryIsOneBreaker ==
  [][~overlap' =>
       /\ \A a, b \in 1..Len(breakers') :
            breakers'[a].forKey = breakers'[b].forKey => a = b
       /\ \A k \in Keys :
            registry'.sMap[k] # 0 => breakers'[registry'.sMap[k]].forKey = k
       /\ \A c \in Callers :
            /\ (calls[c].pc = "load" /\ Stepped(c))
                 => /\ calls'[c].pc = "check"
                    /\ IF registry.sMap[calls[c].key] # 0
                         THEN /\ calls'[c].brk = registry.sMap[calls[c].key]
                              /\ breakers' = breakers /\ closedObjs' = closedObjs
                         ELSE /\ calls'[c].brk = Len(breakers) + 1
                              /\ Len(breakers') = Len(breakers) + 1
                              /\ breakers'[Len(breakers')].threshold = registry.threshold
                              /\ breakers'[Len(breakers')].state = closedRef(Len(closedObjs'))
                              /\ closedObjs'[Len(closedObjs')] = closed(registry.threshold)
            /\ (calls[c].pc \notin {"idle", "load", "store"} /\ Stepped(c))
                 => /\ registry' = registry
                    /\ calls'[c].brk = calls[c].brk
                    /\ \A b \in Breakers \ {calls[c].brk} : breakers'[b] = breakers[b]
            /\ (calls[c].pc = "store" /\ Stepped(c))
                 => /\ last'.result = calls[c].result
                    /\ registry'.sMap[calls[c].key] = calls[c].brk
                    /\ breakers' = breakers /\ closedObjs' = closedObjs
       /\ (quiet' /\ Len(breakers') = 1)
            => /\ (AllIdle' /\ started' >= registry.threshold) => IsOpen(1)'
               /\ last'.no > registry.threshold
                    => (last'.result = "ErrCircuitBreakerOpen" /\ last'.fcalls = 0)]_vars

C25_Witness ==
  /\ ~overlap /\ quiet /\ AllIdle
  /\ registry.threshold = MaxThreshold
  /\ started = MaxKeyedCalls
  /\ Len(breakers) = 1 /\ registry.sMap[1] = 1
  /\ IsOpen(1)
  /\ last.no = MaxKeyedCalls /\ last.result = "ErrCircuitBreakerOpen"

\* C26: a failure handler of a Closed instance whose Open() takes the breaker
\* from Closed to Open finds the failure counter of the breaker's current
\* Closed instance at or above threshold, or is at least a handler of this
\* current instance (whose counter a decay may have lowered since the handler
\* read it): a handler of a superseded instance does not open a breaker whose
\* current counter is below threshold.
C26_OpensOnlyAtThreshold ==
  [][\A c \in Callers :
       (calls[c].pc = "trip" /\ Stepped(c) /\ IsClosed(calls[c].brk))
         => \/ CurrentCount(calls[c].brk) >= breakers[calls[c].brk].threshold
            \/ calls[c].s = breakers[calls[c].brk].state.ref]_vars

\* C27: every Close() that takes a breaker from HalfOpen to Closed is the
\* Close() of a call whose IsOpen() check read the state HalfOpen, in the
\* HalfOpen period that the Close() ends.
C27_OnlyProbesClose ==
  [][\A c \in Callers :
       (calls[c].pc = "close" /\ Stepped(c) /\ isHalfOpen(calls[c].brk))
         => /\ calls[c].saw = "halfOpen"
            /\ calls[c].per = breakers[calls[c].brk].hperiod]_vars

\* failure handlers that have incremented the counter of Closed instance i
\* and have not yet started their decay goroutine
Arming(i) ==
  Cardinality({c \in Callers : calls[c].s = i /\ calls[c].pc \in {"threshold", "trip"}})

\* C28: a failure handler of a Closed instance starts exactly one decay
\* goroutine on that instance before it returns, whether or not it opened the
\* breaker, and nothing else starts one; so the counter of every Closed
\* instance is the number of its pending decay goroutines plus the number of
\* handlers that have incremented it and are yet to start theirs.
C28_OneDecayPerFailure ==
  [][/\ \A c \in Callers :
          /\ (calls[c].pc \in {"threshold", "trip"} /\ Stepped(c))
               => IF calls'[c].pc = "trip"
                    THEN decays' = decays
                    ELSE decays' = [decays EXCEPT ![calls[c].s] = @ + 1]
          /\ (calls[c].pc \notin {"threshold", "trip"} /\ Stepped(c))
               => \A i \in 1..Len(closedObjs) : decays'[i] = decays[i]
     /\ \A i \in 1..Len(closedObjs') : FailureCount(i)' = decays'[i] + Arming(i)']_vars

C28_Witness ==
  /\ quiet /\ AllIdle
  /\ breakers[1].threshold = MaxThreshold
  /\ started = MaxThreshold
  /\ IsOpen(1)
  /\ FailureCount(1) = MaxThreshold /\ decays[1] = MaxThreshold

\* C29: while a breaker is Closed and no failure handler of its current
\* Closed instance is between its increment and its return, the counter of
\* that instance is below threshold.
C29_ClosedBelowThreshold ==
  \A b \in Breakers :
    (IsClosed(b) /\ Arming(breakers[b].state.ref) = 0)
      => (0 <= CurrentCount(b) /\ CurrentCount(b) < breakers[b].threshold)

C29_Witness ==
  /\ AllIdle
  /\ breakers[1].threshold = MaxThreshold
  /\ breakers[1].state = closedRef(2)
  /\ FailureCount(2) = MaxThreshold - 1 /\ decays[2] = MaxThreshold - 1
  /\ FailureCount(1) = MaxThreshold

====
